---- MODULE Spec2Model ----
(***************************************************************************)
(* AnekaZoo animal API: the in-memory animal store (InMemoryAnimalStore)   *)
(* and the five HTTP handlers that call it, as a state machine.            *)
(*                                                                         *)
(* Spec      : main seeds three records, then a pool of request-handling   *)
(*             goroutines serves GET/POST/PUT/DELETE requests.             *)
(* SeqSpec   : the same server with one request in flight at a time.       *)
(* FairSpec  : two goroutines of the server under a fair scheduler.       *)
(* StoreSpec : a goroutine calls the AnimalStore interface directly on a   *)
(*             freshly constructed store, and may write to a record it     *)
(*             was returned.                                               *)
(* A store method is two steps: Lock (s.mu.Lock()) and the method body,    *)
(* which runs with the mutex held and releases it on return (defer).       *)
(***************************************************************************)
EXTENDS Integers, Sequences, FiniteSets, TLC

(* ---------------------------- bounds ---------------------------------- *)
NumThreads  == 2     \* goroutines serving requests, and requests accepted (Spec)
MaxID       == 3     \* largest id a direct call names (StoreSpec)
MaxStoreCalls == 4   \* direct calls of store methods accepted (StoreSpec)
MaxSeqCalls == 4     \* requests accepted when served one at a time (SeqSpec)

Threads == 1 .. NumThreads

(* ---------------------------- records --------------------------------- *)
ZeroAnimal == [ID |-> 0, Name |-> "", Class |-> "", Legs |-> 0]

Seeds ==
  << [ID |-> 1, Name |-> "lion",  Class |-> "mammal",  Legs |-> 4],
     [ID |-> 2, Name |-> "eagle", Class |-> "bird",    Legs |-> 2],
     [ID |-> 3, Name |-> "snake", Class |-> "reptile", Legs |-> 0] >>

\* ids named by concurrent requests: the zero value, a seeded id and an
\* unseeded id
ReqIDs == {0, Seeds[1].ID, Len(Seeds) + 1}

\* ids named by requests served one at a time: the zero value and every
\* seeded id
SeqIDs == 0 .. Len(Seeds)

\* ids named by direct calls of the store
StoreIDs == 0 .. MaxID

\* name/class/legs of request bodies
Panda == [Name |-> "panda", Class |-> "mammal", Legs |-> 4]

Hawk == [Name |-> "hawk", Class |-> "bird", Legs |-> 2]

Bodies(ids, payloads) ==
  { [ID |-> i, Name |-> p.Name, Class |-> p.Class, Legs |-> p.Legs] :
      i \in ids, p \in payloads }

(* ---------------------------- errors ---------------------------------- *)
Nil            == "nil"
ErrNoAnimals   == "no animals found"
ErrNotFound    == "animal with ID %d not found"
ErrExists      == "animal with ID %d already exists"
ErrNoUpdate    == "animal with ID %d not found for update"
ErrNoDelete    == "animal with ID %d not found for deletion"

(* ---------------------------- map helpers ----------------------------- *)
Put(m, k, v) == [x \in (DOMAIN m) \cup {k} |-> IF x = k THEN v ELSE m[x]]

Del(m, k) == [x \in (DOMAIN m) \ {k} |-> m[x]]

EmptyMap == [x \in {} |-> ZeroAnimal]

\* all orders in which a range over the map can visit its entries
Orders(m) ==
  { q \in [1 .. Cardinality(DOMAIN m) -> DOMAIN m] :
      \A i, j \in 1 .. Cardinality(DOMAIN m) : i # j => q[i] # q[j] }

(* ------------------------- store methods ------------------------------ *)
(* Each method is a function of the store fields s = [animals, nextID]    *)
(* and its arguments, giving the fields after the call and what it        *)
(* returns. A returned *Animal also has a referent, ref: the keys of the   *)
(* map whose record a write through the pointer changes.                  *)
Result(a, n, e, v, l) ==
  [animals |-> a, nextID |-> n, err |-> e, animal |-> v, list |-> l, ref |-> {}]

\* the pointer of result r refers to the records held under keys
PointsTo(r, keys) == [r EXCEPT !.ref = keys]

\* the address of a variable local to the method: no record of the map
Local == {}

\* the set of results a call may return: one per iteration order
GetAllAnimals(s) ==
  IF Cardinality(DOMAIN s.animals) = 0
  THEN { Result(s.animals, s.nextID, ErrNoAnimals, ZeroAnimal, << >>) }
  ELSE { Result(s.animals, s.nextID, Nil, ZeroAnimal,
                [i \in 1 .. Cardinality(DOMAIN s.animals) |-> s.animals[q[i]]]) :
           q \in Orders(s.animals) }

\* GetAnimalByID returning the address of the stored record
GetAnimalByIDAliases(s, id) ==
  IF id \notin DOMAIN s.animals
  THEN Result(s.animals, s.nextID, ErrNotFound, ZeroAnimal, << >>)
  ELSE PointsTo(Result(s.animals, s.nextID, Nil, s.animals[id], << >>), {id})

\* animal, ok := s.animals[id] copies the record; &animal is returned
GetAnimalByID(s, id) ==
  IF id \notin DOMAIN s.animals
  THEN Result(s.animals, s.nextID, ErrNotFound, ZeroAnimal, << >>)
  ELSE PointsTo(Result(s.animals, s.nextID, Nil, s.animals[id], << >>), Local)

\* CreateAnimal taking the auto-id branch for every record
CreateAnimalAlwaysAssigns(s, animal) ==
  Result(Put(s.animals, s.nextID, [animal EXCEPT !.ID = s.nextID]),
         s.nextID + 1, Nil, ZeroAnimal, << >>)

\* CreateAnimal without the duplicate check
CreateAnimalNoDupCheck(s, animal) ==
  IF animal.ID = 0
  THEN Result(Put(s.animals, s.nextID, [animal EXCEPT !.ID = s.nextID]),
              s.nextID + 1, Nil, ZeroAnimal, << >>)
  ELSE Result(Put(s.animals, animal.ID, animal), s.nextID, Nil, ZeroAnimal, << >>)

\* CreateAnimal storing under s.nextID without animal.ID = s.nextID
CreateAnimalKeepsZeroID(s, animal) ==
  IF animal.ID = 0
  THEN Result(Put(s.animals, s.nextID, animal),
              s.nextID + 1, Nil, ZeroAnimal, << >>)
  ELSE IF animal.ID \in DOMAIN s.animals
  THEN Result(s.animals, s.nextID, ErrExists, ZeroAnimal, << >>)
  ELSE Result(Put(s.animals, animal.ID, animal), s.nextID, Nil, ZeroAnimal, << >>)

\* CreateAnimal without s.nextID++
CreateAnimalNoAdvance(s, animal) ==
  IF animal.ID = 0
  THEN Result(Put(s.animals, s.nextID, [animal EXCEPT !.ID = s.nextID]),
              s.nextID, Nil, ZeroAnimal, << >>)
  ELSE IF animal.ID \in DOMAIN s.animals
  THEN Result(s.animals, s.nextID, ErrExists, ZeroAnimal, << >>)
  ELSE Result(Put(s.animals, animal.ID, animal), s.nextID, Nil, ZeroAnimal, << >>)

CreateAnimal(s, animal) ==
  IF animal.ID = 0
  THEN Result(Put(s.animals, s.nextID, [animal EXCEPT !.ID = s.nextID]),
              s.nextID + 1, Nil, ZeroAnimal, << >>)
  ELSE IF animal.ID \in DOMAIN s.animals
  THEN Result(s.animals, s.nextID, ErrExists, ZeroAnimal, << >>)
  ELSE Result(Put(s.animals, animal.ID, animal), s.nextID, Nil, ZeroAnimal, << >>)

\* UpdateAnimal storing the record before it reports the missing id
UpdateAnimalWritesOnError(s, id, animal) ==
  Result(Put(s.animals, id, [animal EXCEPT !.ID = id]), s.nextID,
         IF id \notin DOMAIN s.animals THEN ErrNoUpdate ELSE Nil,
         ZeroAnimal, << >>)

\* UpdateAnimal without the existence check
UpdateAnimalCreates(s, id, animal) ==
  Result(Put(s.animals, id, [animal EXCEPT !.ID = id]),
         s.nextID, Nil, ZeroAnimal, << >>)

UpdateAnimal(s, id, animal) ==
  IF id \notin DOMAIN s.animals
  THEN Result(s.animals, s.nextID, ErrNoUpdate, ZeroAnimal, << >>)
  ELSE Result(Put(s.animals, id, [animal EXCEPT !.ID = id]),
              s.nextID, Nil, ZeroAnimal, << >>)

\* UpsertAnimal without animal.ID = id
UpsertAnimalKeepsBodyID(s, id, animal) ==
  Result(Put(s.animals, id, animal), s.nextID, Nil, ZeroAnimal, << >>)

UpsertAnimal(s, id, animal) ==
  Result(Put(s.animals, id, [animal EXCEPT !.ID = id]),
         s.nextID, Nil, ZeroAnimal, << >>)

\* DeleteAnimal without delete(s.animals, id)
DeleteAnimalKeeps(s, id) ==
  IF id \notin DOMAIN s.animals
  THEN Result(s.animals, s.nextID, ErrNoDelete, ZeroAnimal, << >>)
  ELSE Result(s.animals, s.nextID, Nil, ZeroAnimal, << >>)

\* DeleteAnimal without the existence check
DeleteAnimalSilent(s, id) ==
  Result(Del(s.animals, id), s.nextID, Nil, ZeroAnimal, << >>)

DeleteAnimal(s, id) ==
  IF id \notin DOMAIN s.animals
  THEN Result(s.animals, s.nextID, ErrNoDelete, ZeroAnimal, << >>)
  ELSE Result(Del(s.animals, id), s.nextID, Nil, ZeroAnimal, << >>)

(* ---------------------------- state ------------------------------------ *)
VARIABLES
  animals,   \* InMemoryAnimalStore.animals
  nextID,    \* InMemoryAnimalStore.nextID
  mu,        \* InMemoryAnimalStore.mu: TRUE while locked
  mainpc,    \* number of seed records main has created
  ncalls,    \* requests or direct calls accepted so far
  pc,        \* per goroutine: "idle", "lock", "body", "ret", "done"
  req,       \* per goroutine: the request being handled
  call,      \* per goroutine: the store call in progress or last made
  ret,       \* per goroutine: what that store call returned
  resp       \* per goroutine: the response written

vars == << animals, nextID, mu, mainpc, ncalls, pc, req, call, ret, resp >>

Store == [animals |-> animals, nextID |-> nextID]

NoReq  == [method |-> "", pathOK |-> TRUE, id |-> 0, bodyOK |-> TRUE, animal |-> ZeroAnimal]

NoCall == [op |-> "", id |-> 0, animal |-> ZeroAnimal]

NoRet  == [err |-> Nil, animal |-> ZeroAnimal, list |-> << >>, ref |-> {}]

NoResp == [status |-> 0, animal |-> ZeroAnimal, list |-> << >>]

Response(st, a, l) == [status |-> st, animal |-> a, list |-> l]

StoreCall(o, i, a) == [op |-> o, id |-> i, animal |-> a]

NewInMemoryAnimalStore == [animals |-> EmptyMap, nextID |-> 1]

Init ==
  /\ animals = NewInMemoryAnimalStore.animals
  /\ nextID  = NewInMemoryAnimalStore.nextID
  /\ mu      = FALSE
  /\ mainpc  = 0
  /\ ncalls  = 0
  /\ pc      = [t \in Threads |-> "idle"]
  /\ req     = [t \in Threads |-> NoReq]
  /\ call    = [t \in Threads |-> NoCall]
  /\ ret     = [t \in Threads |-> NoRet]
  /\ resp    = [t \in Threads |-> NoResp]

(* ------------------------- the store mutex ---------------------------- *)
\* s.mu.Lock() that does not wait for the mutex
LockNoWait(t) ==
  /\ pc[t] = "lock"
  /\ mu' = TRUE
  /\ pc' = [pc EXCEPT ![t] = "body"]
  /\ UNCHANGED << animals, nextID, mainpc, ncalls, req, call, ret, resp >>

\* s.mu.Lock(): blocks until the mutex is free
Lock(t) ==
  /\ pc[t] = "lock"
  /\ mu = FALSE
  /\ mu' = TRUE
  /\ pc' = [pc EXCEPT ![t] = "body"]
  /\ UNCHANGED << animals, nextID, mainpc, ncalls, req, call, ret, resp >>

\* a store method that unlocks only on its successful return path
ReturnsLockedOnError(t, r) ==
  /\ animals' = r.animals
  /\ nextID'  = r.nextID
  /\ ret'     = [ret EXCEPT ![t] = [err |-> r.err, animal |-> r.animal, list |-> r.list,
                                      ref |-> r.ref]]
  /\ mu'      = (r.err # Nil)
  /\ pc'      = [pc EXCEPT ![t] = "ret"]
  /\ UNCHANGED << mainpc, ncalls, req, call, resp >>

\* the body of a store method, run with the mutex held; returning runs the
\* deferred s.mu.Unlock()
Returns(t, r) ==
  /\ animals' = r.animals
  /\ nextID'  = r.nextID
  /\ ret'     = [ret EXCEPT ![t] = [err |-> r.err, animal |-> r.animal, list |-> r.list,
                                      ref |-> r.ref]]
  /\ mu'      = FALSE
  /\ pc'      = [pc EXCEPT ![t] = "ret"]
  /\ UNCHANGED << mainpc, ncalls, req, call, resp >>

GetAllAnimalsBody(t) ==
  /\ pc[t] = "body" /\ call[t].op = "GetAllAnimals"
  /\ \E r \in GetAllAnimals(Store) : Returns(t, r)

GetAnimalByIDBody(t) ==
  /\ pc[t] = "body" /\ call[t].op = "GetAnimalByID"
  /\ Returns(t, GetAnimalByID(Store, call[t].id))

CreateAnimalBody(t) ==
  /\ pc[t] = "body" /\ call[t].op = "CreateAnimal"
  /\ Returns(t, CreateAnimal(Store, call[t].animal))

UpdateAnimalBody(t) ==
  /\ pc[t] = "body" /\ call[t].op = "UpdateAnimal"
  /\ Returns(t, UpdateAnimal(Store, call[t].id, call[t].animal))

UpsertAnimalBody(t) ==
  /\ pc[t] = "body" /\ call[t].op = "UpsertAnimal"
  /\ Returns(t, UpsertAnimal(Store, call[t].id, call[t].animal))

DeleteAnimalBody(t) ==
  /\ pc[t] = "body" /\ call[t].op = "DeleteAnimal"
  /\ Returns(t, DeleteAnimal(Store, call[t].id))

StoreStep(t) ==
  \/ Lock(t)
  \/ GetAllAnimalsBody(t)
  \/ GetAnimalByIDBody(t)
  \/ CreateAnimalBody(t)
  \/ UpdateAnimalBody(t)
  \/ UpsertAnimalBody(t)
  \/ DeleteAnimalBody(t)

(* ---------------------------- main ------------------------------------ *)
\* main: _ = animalStore.CreateAnimal(seed), before the server listens; no
\* other goroutine exists yet, so the call runs in one step
Seed ==
  /\ mainpc < Len(Seeds)
  /\ mu = FALSE
  /\ LET r == CreateAnimal(Store, Seeds[mainpc + 1])
     IN /\ animals' = r.animals
        /\ nextID'  = r.nextID
  /\ mainpc' = mainpc + 1
  /\ UNCHANGED << mu, ncalls, pc, req, call, ret, resp >>

Serving == mainpc = Len(Seeds)

(* ---------------------------- handlers -------------------------------- *)
(* The traffic a specification sends is tr = [ids, payloads, max]: the    *)
(* ids its requests name, the name/class/legs of their bodies, and the    *)
(* number of requests it accepts.                                         *)
Traffic(ids, payloads, max) == [ids |-> ids, payloads |-> payloads, max |-> max]

\* goroutine t is free to take a request; goroutines are interchangeable, so
\* one that has not served yet is taken in index order
Free(t, tr) ==
  /\ pc[t] \in {"idle", "done"}
  /\ Serving
  /\ ncalls < tr.max
  /\ pc[t] = "idle" => \A u \in 1 .. (t - 1) : pc[u] # "idle"

\* the handler calls a store method
Invoke(t, c) ==
  /\ call' = [call EXCEPT ![t] = c]
  /\ ret'  = [ret EXCEPT ![t] = NoRet]
  /\ pc'   = [pc EXCEPT ![t] = "lock"]

\* the handler writes its response and returns
Respond(t, st, a, l) ==
  /\ resp' = [resp EXCEPT ![t] = Response(st, a, l)]
  /\ call' = [call EXCEPT ![t] = NoCall]
  /\ ret'  = [ret EXCEPT ![t] = NoRet]
  /\ pc'   = [pc EXCEPT ![t] = "done"]

\* a request arrives and its handler runs up to its first store call
Accept(t, tr, r, c) ==
  /\ Free(t, tr)
  /\ req'    = [req EXCEPT ![t] = r]
  /\ resp'   = [resp EXCEPT ![t] = NoResp]
  /\ ncalls' = ncalls + 1
  /\ Invoke(t, c)
  /\ UNCHANGED << animals, nextID, mu, mainpc >>

\* a request arrives and its handler answers without calling the store
Refuse(t, tr, r, st) ==
  /\ Free(t, tr)
  /\ req'    = [req EXCEPT ![t] = r]
  /\ ncalls' = ncalls + 1
  /\ Respond(t, st, ZeroAnimal, << >>)
  /\ UNCHANGED << animals, nextID, mu, mainpc >>

\* the store call of goroutine t, handling method m, has returned from op o
Returned(t, m, o) == pc[t] = "ret" /\ req[t].method = m /\ call[t].op = o

Request(m, ok, i, bok, a) ==
  [method |-> m, pathOK |-> ok, id |-> i, bodyOK |-> bok, animal |-> a]

\* GET /v1/animals
getAnimalsHandler(t, tr) ==
  Accept(t, tr, Request("GET_ALL", TRUE, 0, TRUE, ZeroAnimal),
         StoreCall("GetAllAnimals", 0, ZeroAnimal))

getAnimalsHandlerReturn(t) ==
  /\ Returned(t, "GET_ALL", "GetAllAnimals")
  /\ IF ret[t].err # Nil
     THEN IF ret[t].err = ErrNoAnimals
          THEN Respond(t, 404, ZeroAnimal, << >>)
          ELSE Respond(t, 500, ZeroAnimal, << >>)
     ELSE Respond(t, 200, ZeroAnimal, ret[t].list)
  /\ UNCHANGED << animals, nextID, mu, mainpc, ncalls, req >>

\* GET /v1/animals/{id}
getAnimalHandler(t, tr) ==
  \/ Refuse(t, tr, Request("GET", FALSE, 0, TRUE, ZeroAnimal), 400)
  \/ \E i \in tr.ids :
       Accept(t, tr, Request("GET", TRUE, i, TRUE, ZeroAnimal),
              StoreCall("GetAnimalByID", i, ZeroAnimal))

getAnimalHandlerReturn(t) ==
  /\ Returned(t, "GET", "GetAnimalByID")
  /\ IF ret[t].err # Nil
     THEN Respond(t, 404, ZeroAnimal, << >>)
     ELSE Respond(t, 200, ret[t].animal, << >>)
  /\ UNCHANGED << animals, nextID, mu, mainpc, ncalls, req >>

\* POST /v1/animals without the animal.ID == 0 check
createAnimalHandlerNoIDCheck(t, tr) ==
  \/ Refuse(t, tr, Request("POST", TRUE, 0, FALSE, ZeroAnimal), 400)
  \/ \E a \in Bodies(tr.ids, tr.payloads) :
       Accept(t, tr, Request("POST", TRUE, 0, TRUE, a),
              StoreCall("GetAnimalByID", a.ID, ZeroAnimal))

\* POST /v1/animals: decode, require an id, look the id up
createAnimalHandler(t, tr) ==
  \/ Refuse(t, tr, Request("POST", TRUE, 0, FALSE, ZeroAnimal), 400)
  \/ \E a \in Bodies(tr.ids, tr.payloads) :
       IF a.ID = 0
       THEN Refuse(t, tr, Request("POST", TRUE, 0, TRUE, a), 400)
       ELSE Accept(t, tr, Request("POST", TRUE, 0, TRUE, a),
                   StoreCall("GetAnimalByID", a.ID, ZeroAnimal))

\* POST: the lookup returned; 409 when found, else create
createAnimalHandlerChecked(t) ==
  /\ Returned(t, "POST", "GetAnimalByID")
  /\ IF ret[t].err = Nil
     THEN Respond(t, 409, ZeroAnimal, << >>)
     ELSE /\ Invoke(t, StoreCall("CreateAnimal", 0, req[t].animal))
          /\ UNCHANGED resp
  /\ UNCHANGED << animals, nextID, mu, mainpc, ncalls, req >>

\* POST: the create returned
createAnimalHandlerReturn(t) ==
  /\ Returned(t, "POST", "CreateAnimal")
  /\ IF ret[t].err # Nil
     THEN Respond(t, 500, ZeroAnimal, << >>)
     ELSE Respond(t, 201, req[t].animal, << >>)
  /\ UNCHANGED << animals, nextID, mu, mainpc, ncalls, req >>

\* PUT /v1/animals/{id} without animal.ID = id
updateAnimalHandlerKeepsBodyID(t, tr) ==
  \/ Refuse(t, tr, Request("PUT", FALSE, 0, TRUE, ZeroAnimal), 400)
  \/ \E i \in tr.ids :
       \/ Refuse(t, tr, Request("PUT", TRUE, i, FALSE, ZeroAnimal), 400)
       \/ \E a \in Bodies({0, Seeds[1].ID}, tr.payloads) :
            Accept(t, tr, Request("PUT", TRUE, i, TRUE, a),
                   StoreCall("GetAnimalByID", i, a))

\* PUT /v1/animals/{id}: parse the path id, decode, force the id, look it up;
\* the body names no id (the zero value) or a seeded id
updateAnimalHandler(t, tr) ==
  \/ Refuse(t, tr, Request("PUT", FALSE, 0, TRUE, ZeroAnimal), 400)
  \/ \E i \in tr.ids :
       \/ Refuse(t, tr, Request("PUT", TRUE, i, FALSE, ZeroAnimal), 400)
       \/ \E a \in Bodies({0, Seeds[1].ID}, tr.payloads) :
            Accept(t, tr, Request("PUT", TRUE, i, TRUE, a),
                   StoreCall("GetAnimalByID", i, [a EXCEPT !.ID = i]))

\* PUT: the lookup returned; update when found, else upsert
updateAnimalHandlerChecked(t) ==
  /\ Returned(t, "PUT", "GetAnimalByID")
  /\ IF ret[t].err = Nil
     THEN Invoke(t, StoreCall("UpdateAnimal", call[t].id, call[t].animal))
     ELSE Invoke(t, StoreCall("UpsertAnimal", call[t].id, call[t].animal))
  /\ UNCHANGED << animals, nextID, mu, mainpc, ncalls, req, resp >>

\* PUT: the update or the upsert returned
updateAnimalHandlerReturn(t) ==
  /\ \/ Returned(t, "PUT", "UpdateAnimal")
     \/ Returned(t, "PUT", "UpsertAnimal")
  /\ IF ret[t].err # Nil
     THEN Respond(t, 500, ZeroAnimal, << >>)
     ELSE IF call[t].op = "UpdateAnimal"
          THEN Respond(t, 200, call[t].animal, << >>)
          ELSE Respond(t, 201, call[t].animal, << >>)
  /\ UNCHANGED << animals, nextID, mu, mainpc, ncalls, req >>

\* DELETE /v1/animals/{id}
deleteAnimalHandler(t, tr) ==
  \/ Refuse(t, tr, Request("DELETE", FALSE, 0, TRUE, ZeroAnimal), 400)
  \/ \E i \in tr.ids :
       Accept(t, tr, Request("DELETE", TRUE, i, TRUE, ZeroAnimal),
              StoreCall("DeleteAnimal", i, ZeroAnimal))

deleteAnimalHandlerReturn(t) ==
  /\ Returned(t, "DELETE", "DeleteAnimal")
  /\ IF ret[t].err # Nil
     THEN Respond(t, 404, ZeroAnimal, << >>)
     ELSE Respond(t, 204, ZeroAnimal, << >>)
  /\ UNCHANGED << animals, nextID, mu, mainpc, ncalls, req >>

\* one step of the server: goroutines T serving traffic tr
Serve(T, tr) ==
  \/ Seed
  \/ \E t \in T :
       \/ StoreStep(t)
       \/ getAnimalsHandler(t, tr)
       \/ getAnimalsHandlerReturn(t)
       \/ getAnimalHandler(t, tr)
       \/ getAnimalHandlerReturn(t)
       \/ createAnimalHandler(t, tr)
       \/ createAnimalHandlerChecked(t)
       \/ createAnimalHandlerReturn(t)
       \/ updateAnimalHandler(t, tr)
       \/ updateAnimalHandlerChecked(t)
       \/ updateAnimalHandlerReturn(t)
       \/ deleteAnimalHandler(t, tr)
       \/ deleteAnimalHandlerReturn(t)

(* ------------------- direct callers of the interface ------------------ *)
\* the calls a client of AnimalStore can make
Calls ==
  { StoreCall("GetAllAnimals", 0, ZeroAnimal) }
  \cup { StoreCall("GetAnimalByID", i, ZeroAnimal) : i \in StoreIDs }
  \cup { StoreCall("CreateAnimal", 0, a) : a \in Bodies(StoreIDs, {Panda, Hawk}) }
  \cup { StoreCall(o, i, a) : o \in {"UpdateAnimal", "UpsertAnimal"},
                              i \in StoreIDs, a \in Bodies(StoreIDs, {Panda, Hawk}) }
  \cup { StoreCall("DeleteAnimal", i, ZeroAnimal) : i \in StoreIDs }

\* a goroutine holding the store calls one of its methods
DirectCall(t) ==
  /\ pc[t] \in {"idle", "ret"}
  /\ req[t] = NoReq
  /\ mainpc = 0
  /\ ncalls < MaxStoreCalls
  /\ ncalls' = ncalls + 1
  /\ \E c \in Calls : Invoke(t, c)
  /\ UNCHANGED << animals, nextID, mu, mainpc, req, resp >>

\* what a caller writes into a record it was given
Renamed == "renamed"

\* the caller of GetAnimalByID writes through the pointer it was returned
WriteReturned(t) ==
  /\ pc[t] = "ret" /\ req[t] = NoReq
  /\ call[t].op = "GetAnimalByID" /\ ret[t].err = Nil
  /\ ret[t].animal.Name # Renamed
  /\ LET a == [ret[t].animal EXCEPT !.Name = Renamed]
     IN /\ ret' = [ret EXCEPT ![t].animal = a]
        /\ animals' = [k \in DOMAIN animals |->
                         IF k \in ret[t].ref THEN a ELSE animals[k]]
  /\ UNCHANGED << nextID, mu, mainpc, ncalls, pc, req, call, resp >>

(* ------------------------- specifications ----------------------------- *)
\* the server under concurrent requests
Next == Serve(Threads, Traffic(ReqIDs, {Panda}, NumThreads))

Spec == Init /\ [][Next]_vars

\* what goroutine t does between acquiring the mutex and its response
Continue(t) ==
  \/ GetAllAnimalsBody(t)
  \/ GetAnimalByIDBody(t)
  \/ CreateAnimalBody(t)
  \/ UpdateAnimalBody(t)
  \/ UpsertAnimalBody(t)
  \/ DeleteAnimalBody(t)
  \/ getAnimalsHandlerReturn(t)
  \/ getAnimalHandlerReturn(t)
  \/ createAnimalHandlerChecked(t)
  \/ createAnimalHandlerReturn(t)
  \/ updateAnimalHandlerChecked(t)
  \/ updateAnimalHandlerReturn(t)
  \/ deleteAnimalHandlerReturn(t)

\* two goroutines serving concurrent requests for a seeded and an unused id
\* under a fair scheduler: a runnable goroutine eventually runs, and a
\* goroutine blocked in s.mu.Lock() gets the mutex if it is free again and
\* again (sync.Mutex hands a starving waiter the mutex)
FairNext == Serve({1, 2}, Traffic({Seeds[1].ID, Len(Seeds) + 1}, {Panda}, NumThreads))

FairSpec ==
  /\ Init /\ [][FairNext]_vars
  /\ \A t \in {1, 2} : SF_vars(Lock(t)) /\ WF_vars(Continue(t))

\* the server with one request in flight at a time
SeqNext == Serve({1}, Traffic(SeqIDs, {Panda, Hawk}, MaxSeqCalls))

SeqSpec == Init /\ [][SeqNext]_vars

\* the store called directly, one call at a time
StoreNext == DirectCall(1) \/ StoreStep(1) \/ WriteReturned(1)

StoreSpec == Init /\ [][StoreNext]_vars

TypeOK ==
  /\ mu \in BOOLEAN
  /\ mainpc \in 0 .. Len(Seeds)
  /\ ncalls \in Nat
  /\ \A t \in Threads : pc[t] \in {"idle", "lock", "body", "ret", "done"}

(* ------------------------------ claims -------------------------------- *)
\* in this step goroutine t runs the body of store method o and returns
BodyStep(t, o) == pc[t] = "body" /\ call[t].op = o /\ pc'[t] = "ret"

\* goroutine t has answered a request of method m
Answered(t, m) == pc[t] = "done" /\ req[t].method = m

\* every record of map m is in map n, unchanged
Kept(m, n) == \A k \in DOMAIN m : k \in DOMAIN n /\ n[k] = m[k]

\* C1: every POST with a decodable body and a non-zero id is answered 201 or
\* 409, never 500: the handler's pre-check and the store's duplicate check agree
C1_PostNever500 ==
  \A t \in Threads :
    (Answered(t, "POST") /\ req[t].bodyOK /\ req[t].animal.ID # 0)
      => resp[t].status \in {201, 409}

\* C2: every PUT with a parseable path id and a decodable body is answered 200
\* or 201, never 500: the store call chosen after the pre-check succeeds
C2_PutNever500 ==
  \A t \in Threads :
    (Answered(t, "PUT") /\ req[t].pathOK /\ req[t].bodyOK)
      => resp[t].status \in {200, 201}

\* C3: when the write of a PUT takes effect, the record was absent if the PUT
\* goes on to answer 201 (upsert succeeded) and present if it goes on to answer
\* 200 (update succeeded)
C3_PutStatusMatchesWrite ==
  [][ \A t \in Threads :
        /\ (req[t].method = "PUT" /\ BodyStep(t, "UpsertAnimal") /\ ret'[t].err = Nil)
             => call[t].id \notin DOMAIN animals
        /\ (req[t].method = "PUT" /\ BodyStep(t, "UpdateAnimal") /\ ret'[t].err = Nil)
             => call[t].id \in DOMAIN animals ]_vars

\* C4: a create that returns success leaves every record already stored as it
\* was and grows the number of stored records by exactly one, for non-zero and
\* for zero ids
C4_CreateNeverReplaces ==
  [][ \A t \in Threads :
        (BodyStep(t, "CreateAnimal") /\ ret'[t].err = Nil)
          => /\ Kept(animals, animals')
             /\ Cardinality(DOMAIN animals') = Cardinality(DOMAIN animals) + 1 ]_vars

\* C5: create(r) with a non-zero id absent from the store succeeds, getByID(r.id)
\* right after it returns r in all four fields, and every other record is unchanged
C5_CreateThenGet ==
  [][ \A t \in Threads :
        (/\ BodyStep(t, "CreateAnimal")
         /\ call[t].animal.ID # 0
         /\ call[t].animal.ID \notin DOMAIN animals)
          => /\ ret'[t].err = Nil
             /\ GetAnimalByID([animals |-> animals', nextID |-> nextID'],
                              call[t].animal.ID).err = Nil
             /\ GetAnimalByID([animals |-> animals', nextID |-> nextID'],
                              call[t].animal.ID).animal = call[t].animal
             /\ Kept(animals, animals')
             /\ DOMAIN animals' = DOMAIN animals \cup {call[t].animal.ID} ]_vars

C5_Witness ==
  \E t \in Threads :
    /\ pc[t] = "ret" /\ call[t].op = "CreateAnimal"
    /\ call[t].animal.ID # 0 /\ ret[t].err = Nil
    /\ call[t].animal.ID \in DOMAIN animals
    /\ animals[call[t].animal.ID] = call[t].animal
    /\ Cardinality(DOMAIN animals) >= 2

\* C6: create(r) with a non-zero id already in the store returns the Conflict
\* error and changes neither the stored records nor nextID
C6_CreateConflict ==
  [][ \A t \in Threads :
        (/\ BodyStep(t, "CreateAnimal")
         /\ call[t].animal.ID # 0
         /\ call[t].animal.ID \in DOMAIN animals)
          => /\ ret'[t].err = ErrExists
             /\ animals' = animals
             /\ nextID' = nextID ]_vars

C6_Witness ==
  \E t \in Threads :
    /\ pc[t] = "ret" /\ call[t].op = "CreateAnimal"
    /\ call[t].animal.ID # 0 /\ ret[t].err = ErrExists
    /\ call[t].animal.ID \in DOMAIN animals
    /\ animals[call[t].animal.ID] # call[t].animal

\* C7: update(id, r) on an absent id returns NotFound and leaves the store
\* unchanged; on a present id it succeeds, stores r with its id set to id under
\* id, and changes no other record and not the set of stored ids
C7_UpdatePure ==
  [][ \A t \in Threads :
        BodyStep(t, "UpdateAnimal")
          => IF call[t].id \notin DOMAIN animals
             THEN /\ ret'[t].err = ErrNoUpdate
                  /\ animals' = animals
                  /\ nextID' = nextID
             ELSE /\ ret'[t].err = Nil
                  /\ DOMAIN animals' = DOMAIN animals
                  /\ animals'[call[t].id] = [call[t].animal EXCEPT !.ID = call[t].id]
                  /\ \A k \in DOMAIN animals \ {call[t].id} : animals'[k] = animals[k] ]_vars

C7_Witness ==
  \E t \in Threads :
    /\ pc[t] = "ret" /\ call[t].op = "UpdateAnimal" /\ ret[t].err = Nil
    /\ call[t].animal.ID # call[t].id
    /\ animals[call[t].id] = [call[t].animal EXCEPT !.ID = call[t].id]
    /\ Cardinality(DOMAIN animals) >= 2

\* C8: upsert(id, r) succeeds whether or not id is present, getByID(id) right
\* after it returns r with its id set to id, the same upsert again leaves the
\* store unchanged, and no record under another id is added, removed or modified
C8_UpsertAlways ==
  [][ \A t \in Threads :
        BodyStep(t, "UpsertAnimal")
          => /\ ret'[t].err = Nil
             /\ GetAnimalByID([animals |-> animals', nextID |-> nextID'],
                              call[t].id).err = Nil
             /\ GetAnimalByID([animals |-> animals', nextID |-> nextID'],
                              call[t].id).animal
                  = [call[t].animal EXCEPT !.ID = call[t].id]
             /\ UpsertAnimal([animals |-> animals', nextID |-> nextID'],
                             call[t].id, call[t].animal).animals = animals'
             /\ UpsertAnimal([animals |-> animals', nextID |-> nextID'],
                             call[t].id, call[t].animal).nextID = nextID'
             /\ DOMAIN animals' \ {call[t].id} = DOMAIN animals \ {call[t].id}
             /\ \A k \in DOMAIN animals \ {call[t].id} : animals'[k] = animals[k] ]_vars

C8_Witness ==
  \E t \in Threads :
    /\ pc[t] = "ret" /\ call[t].op = "UpsertAnimal" /\ ret[t].err = Nil
    /\ call[t].animal.ID # call[t].id
    /\ animals[call[t].id] = [call[t].animal EXCEPT !.ID = call[t].id]
    /\ Cardinality(DOMAIN animals) >= 2

\* C9: delete(id) on a present id succeeds, getByID(id) right after it returns
\* NotFound and every other record is unchanged; on an absent id it returns
\* NotFound and leaves the store unchanged
C9_Delete ==
  [][ \A t \in Threads :
        BodyStep(t, "DeleteAnimal")
          => IF call[t].id \in DOMAIN animals
             THEN /\ ret'[t].err = Nil
                  /\ GetAnimalByID([animals |-> animals', nextID |-> nextID'],
                                   call[t].id).err = ErrNotFound
                  /\ DOMAIN animals' = DOMAIN animals \ {call[t].id}
                  /\ Kept(animals', animals)
                  /\ nextID' = nextID
             ELSE /\ ret'[t].err = ErrNoDelete
                  /\ animals' = animals
                  /\ nextID' = nextID ]_vars

C9_Witness ==
  \E t \in Threads :
    /\ pc[t] = "ret" /\ call[t].op = "DeleteAnimal" /\ ret[t].err = Nil
    /\ call[t].id \notin DOMAIN animals
    /\ DOMAIN animals # {}

\* the sequence l holds every record of map m exactly once and nothing else
ExactlyOnce(l, m) ==
  /\ Len(l) = Cardinality(DOMAIN m)
  /\ \A k \in DOMAIN m : Cardinality({i \in 1 .. Len(l) : l[i] = m[k]}) = 1
  /\ \A i \in 1 .. Len(l) : \E k \in DOMAIN m : l[i] = m[k]

\* the records a list call on store fields s can return
Listed(s) ==
  UNION { {r.list[i] : i \in 1 .. Len(r.list)} : r \in GetAllAnimals(s) }

\* record r is what a create of record a stores
Creates(r, a) ==
  /\ r.Name = a.Name /\ r.Class = a.Class /\ r.Legs = a.Legs
  /\ a.ID # 0 => r.ID = a.ID

\* C10: list returns NotFound exactly when the store holds no record, otherwise
\* every stored record exactly once and nothing else, and each successful create
\* adds exactly its record to what list returns, so that after successful creates
\* on an empty store list returns exactly the created records
C10_ListAfterCreates ==
  [][ \A t \in Threads :
        /\ BodyStep(t, "GetAllAnimals")
             => /\ (ret'[t].err = ErrNoAnimals) <=> (DOMAIN animals = {})
                /\ ret'[t].err = Nil => ExactlyOnce(ret'[t].list, animals)
        /\ (BodyStep(t, "CreateAnimal") /\ ret'[t].err = Nil)
             => \E r \in Listed([animals |-> animals', nextID |-> nextID']) :
                  /\ Creates(r, call[t].animal)
                  /\ r \notin Listed(Store)
                  /\ Listed([animals |-> animals', nextID |-> nextID'])
                       = Listed(Store) \cup {r} ]_vars

\* list and GET /v1/animals on the stored records alone: NotFound and 404
\* exactly when the store holds no record, otherwise every stored record
\* exactly once and nothing else, answered 200 with that list
C10_List ==
  [][ \A t \in Threads :
        /\ BodyStep(t, "GetAllAnimals")
             => /\ (ret'[t].err = ErrNoAnimals) <=> (DOMAIN animals = {})
                /\ ret'[t].err \in {ErrNoAnimals, Nil}
                /\ ret'[t].err = Nil => ExactlyOnce(ret'[t].list, animals)
                /\ animals' = animals
        /\ (pc[t] = "ret" /\ req[t].method = "GET_ALL" /\ pc'[t] = "done")
             => /\ (resp'[t].status = 404) <=> (ret[t].err = ErrNoAnimals)
                /\ resp'[t].status \in {404, 200}
                /\ resp'[t].status = 200 => resp'[t].list = ret[t].list ]_vars

C10_Witness ==
  /\ Answered(1, "GET_ALL")
  /\ resp[1].status = 404
  /\ DOMAIN animals = {}
  /\ ncalls = Len(Seeds) + 1

\* the store methods that write
Writers == {"CreateAnimal", "UpdateAnimal", "UpsertAnimal", "DeleteAnimal"}

\* in this step goroutine t writes a response
RespondStep(t) ==
  /\ pc'[t] = "done"
  /\ pc[t] = "done" => << req'[t], resp'[t] >> # << req[t], resp[t] >>

ErrorStatus == {400, 404, 409, 500}

\* C11: no error response is partially applied: a store call that returns an
\* error, and every read, leaves records and nextID as they were; a request is
\* answered 400, 404, 409 or 500 only when it made no store call, or its last
\* call was the lookup or returned an error; writing the response changes
\* nothing in the store, and no request calls the store again after a write
C11_NoPartialApplication ==
  [][ \A t \in Threads :
        /\ (pc[t] = "body" /\ pc'[t] = "ret"
             /\ (call[t].op \notin Writers \/ ret'[t].err # Nil))
             => (animals' = animals /\ nextID' = nextID)
        /\ (RespondStep(t) /\ resp'[t].status \in ErrorStatus)
             => /\ animals' = animals /\ nextID' = nextID
                /\ \/ pc[t] \in {"idle", "done"}
                   \/ pc[t] = "ret" /\ call[t].op \notin Writers
                   \/ pc[t] = "ret" /\ ret[t].err # Nil
        /\ ~(pc[t] = "ret" /\ call[t].op \in Writers /\ pc'[t] = "lock") ]_vars

C11_Witness ==
  \E t, u \in Threads :
    /\ Answered(t, "PUT") /\ resp[t].status = 500
    /\ Answered(u, "DELETE") /\ resp[u].status = 204
    /\ req[t].id = req[u].id
    /\ req[t].id \notin DOMAIN animals

\* C12: the store methods are mutually exclusive: at most one goroutine is
\* inside a locked section, and the mutex is held exactly while one is
C12_MutualExclusion ==
  /\ Cardinality({t \in Threads : pc[t] = "body"}) <= 1
  /\ mu <=> (\E t \in Threads : pc[t] = "body")

C12_Witness ==
  \E t, u \in Threads :
    /\ pc[t] = "body" /\ call[t].op \in Writers
    /\ pc[u] = "lock" /\ call[u].op \in Writers
    /\ mu

\* C13: DeleteAnimal succeeds exactly when the id is stored, and then removes
\* it; DELETE is answered 204 exactly when DeleteAnimal succeeded and 404
\* otherwise; an id that is not stored becomes stored only by the create of a
\* POST or the upsert of a PUT, so two 204 answers for one id have such a
\* write between them
C13_DeleteOnce ==
  [][ /\ \A t \in Threads :
           /\ BodyStep(t, "DeleteAnimal")
                => /\ (ret'[t].err = Nil) <=> (call[t].id \in DOMAIN animals)
                   /\ call[t].id \notin DOMAIN animals'
           /\ (RespondStep(t) /\ req'[t].method = "DELETE" /\ req'[t].pathOK)
                => /\ pc[t] = "ret" /\ call[t].op = "DeleteAnimal"
                   /\ (resp'[t].status = 204) <=> (ret[t].err = Nil)
                   /\ resp'[t].status \in {204, 404}
      /\ Serving =>
           \A i \in DOMAIN animals' \ DOMAIN animals :
             \E t \in Threads :
               /\ \/ req[t].method = "POST" /\ BodyStep(t, "CreateAnimal")
                                            /\ call[t].animal.ID = i
                  \/ req[t].method = "PUT" /\ BodyStep(t, "UpsertAnimal")
                                           /\ call[t].id = i ]_vars

C13_Witness ==
  \E t, u \in Threads :
    /\ t # u
    /\ Answered(t, "DELETE") /\ resp[t].status = 204
    /\ Answered(u, "DELETE") /\ resp[u].status = 404
    /\ req[t].id = req[u].id /\ req[t].pathOK /\ req[u].pathOK
    /\ req[t].id = Seeds[1].ID

\* C14: in a PUT the path id wins over the body id: the write of a PUT with a
\* parsed path id p and a decoded body, when it succeeds, leaves the body with
\* its id set to p stored under p; succeeding or not it leaves every record
\* under another key, the one under the body id included, neither created nor
\* changed nor removed; the record in a 200 or 201 response is the body with
\* its id set to p
C14_PathIDWins ==
  [][ \A t \in Threads :
        LET stored == [req[t].animal EXCEPT !.ID = req[t].id]
        IN  /\ (req[t].method = "PUT" /\ pc[t] = "body" /\ pc'[t] = "ret"
                  /\ call[t].op \in {"UpdateAnimal", "UpsertAnimal"})
                 => /\ call[t].id = req[t].id
                    /\ ret'[t].err = Nil
                         => /\ req[t].id \in DOMAIN animals'
                            /\ animals'[req[t].id] = stored
                    /\ \A k \in (DOMAIN animals \cup DOMAIN animals')
                                    \ {req[t].id} :
                         /\ k \in DOMAIN animals /\ k \in DOMAIN animals'
                         /\ animals'[k] = animals[k]
            /\ (req[t].method = "PUT" /\ pc[t] = "ret" /\ pc'[t] = "done"
                  /\ resp'[t].status \in {200, 201})
                 => /\ ret[t].err = Nil
                    /\ resp'[t].animal = stored ]_vars

C14_Witness ==
  \E t \in Threads :
    /\ Answered(t, "PUT") /\ resp[t].status = 201
    /\ resp[t].animal.ID = req[t].id
    /\ req[t].animal.ID = Seeds[1].ID /\ req[t].id # Seeds[1].ID
    /\ animals[req[t].id] = [req[t].animal EXCEPT !.ID = req[t].id]
    /\ Seeds[1].ID \in DOMAIN animals /\ animals[Seeds[1].ID] = Seeds[1]

C16_Progress ==
  /\ \A t \in Threads : (pc[t] = "lock") ~> (pc[t] = "body")
  /\ \A t \in Threads : (pc[t] = "body") ~> (pc[t] = "ret" /\ ~mu)
  /\ \A t \in Threads : (pc[t] \in {"lock", "body", "ret"}) ~> (pc[t] = "done")
  /\ mu ~> ~mu

C16_Witness ==
  \E t, u \in Threads :
    /\ pc[t] = "lock" /\ req[t].method = "POST" /\ call[t].op = "CreateAnimal"
    /\ pc[u] = "body" /\ req[u].method = "PUT" /\ call[u].op = "UpsertAnimal"
    /\ mu

\* C17: nextID starts at 1 and never decreases; a create of a record with zero
\* id stores the record under the value nextID had, with that value as its
\* id, and advances nextID by exactly one; nothing else changes nextID, so
\* two creates with zero id are assigned different ids
C17_NextID ==
  /\ nextID = 1
  /\ [][ /\ nextID' >= nextID
         /\ \A t \in Threads :
              (BodyStep(t, "CreateAnimal") /\ call[t].animal.ID = 0)
                => /\ nextID' = nextID + 1
                   /\ ret'[t].err = Nil
                   /\ nextID \in DOMAIN animals'
                   /\ animals'[nextID].ID = nextID
         /\ nextID' # nextID
              => \E t \in Threads :
                   BodyStep(t, "CreateAnimal") /\ call[t].animal.ID = 0 ]_vars

C17_Witness ==
  /\ pc[1] = "ret" /\ call[1].op = "CreateAnimal" /\ call[1].animal.ID = 0
  /\ nextID = 3
  /\ {1, 2} \subseteq DOMAIN animals
  /\ animals[1].ID = 1 /\ animals[2].ID = 2

\* C18: through HTTP the auto-id branch of CreateAnimal is not reached: a POST
\* whose body has zero id is answered 400 and CreateAnimal is never called
\* with a zero id, so nextID keeps its initial value through seeding and every
\* request; a record comes to be stored under id 0 only by the upsert of a
\* PUT whose path id is 0
C18_AutoIDUnreachable ==
  /\ [](/\ nextID = NewInMemoryAnimalStore.nextID
        /\ \A t \in Threads :
             /\ (req[t].method = "POST" /\ req[t].bodyOK /\ req[t].animal.ID = 0)
                  => (pc[t] = "done" /\ resp[t].status = 400)
             /\ call[t].op = "CreateAnimal" => call[t].animal.ID # 0)
  /\ [][ (0 \notin DOMAIN animals /\ 0 \in DOMAIN animals')
           => \E t \in Threads :
                /\ req[t].method = "PUT" /\ req[t].pathOK /\ req[t].id = 0
                /\ BodyStep(t, "UpsertAnimal") /\ call[t].id = 0 ]_vars

C18_Witness ==
  \E t, u \in Threads :
    /\ Answered(t, "PUT") /\ req[t].id = 0 /\ resp[t].status = 201
    /\ Answered(u, "POST") /\ req[u].bodyOK /\ req[u].animal.ID = 0
    /\ resp[u].status = 400
    /\ 0 \in DOMAIN animals /\ animals[0].ID = 0
    /\ nextID = 1

\* C19: GetAllAnimals and GetAnimalByID leave records and nextID unchanged,
\* returning an error or not; GetAnimalByID returns the stored record, and a
\* caller's write to the returned record leaves the store unchanged
C19_ReadsArePure ==
  [][ \A t \in Threads :
        /\ (BodyStep(t, "GetAllAnimals") \/ BodyStep(t, "GetAnimalByID"))
             => (animals' = animals /\ nextID' = nextID)
        /\ BodyStep(t, "GetAnimalByID")
             => /\ (ret'[t].err = Nil) <=> (call[t].id \in DOMAIN animals)
                /\ ret'[t].err = Nil => ret'[t].animal = animals[call[t].id]
                /\ ret'[t].err # Nil => ret'[t].err = ErrNotFound
        /\ (pc[t] = "ret" /\ pc'[t] = "ret" /\ ret'[t].animal # ret[t].animal)
             => (animals' = animals /\ nextID' = nextID) ]_vars

C19_Witness ==
  /\ pc[1] = "ret" /\ call[1].op = "GetAnimalByID" /\ ret[1].err = Nil
  /\ ret[1].animal.Name = Renamed
  /\ call[1].id \in DOMAIN animals
  /\ animals[call[1].id].Name # Renamed
  /\ animals[call[1].id] = [ret[1].animal EXCEPT !.Name = animals[call[1].id].Name]

====
